---- MODULE Spec2Model ----
(***************************************************************************)
(* Provider routing and streaming-forward subsystem of VibeAIRouter:       *)
(* ProviderRegistry (model -> provider directory and its polling lock),    *)
(* BaseProvider (health record), RequestForwarder, StreamHandler and the   *)
(* error handler that receives a rejected request.                         *)
(*                                                                         *)
(* Two specifications share the registry and provider variables:           *)
(*   Spec     request forwarding and stream sessions over a loaded         *)
(*            registry; every action is one event-loop task together with  *)
(*            the microtasks it schedules (no timer or I/O can interleave) *)
(*   RegSpec  the registry lock, initializeProviders runs and lookups,     *)
(*            one action per code block between two awaits, scheduled as   *)
(*            Node schedules them (microtasks before timers and I/O).      *)
(***************************************************************************)
EXTENDS Integers, Sequences, FiniteSets, TLC

\* ---------------------------------------------------------------- bounds
NumReq == 1          \* requests in Spec
MaxChunks == 2       \* upstream chunks relayed per stream session
MaxErrors == 6       \* cap on BaseProvider.errorCount explored
NumRuns == 2         \* initializeProviders runs in RegSpec
NumLookups == 2      \* getProviderForModel calls in RegSpec

\* ------------------------------------------------------ program constants
maxErrorCount == 5

ReqIds == 1..NumReq
RunIds == 1..NumRuns

\* Object.entries(providerConfigs) order; createProvider knows these two.
ProviderOrder == <<"siliconflow", "gitee">>
ProviderIds == {ProviderOrder[i] : i \in 1..Len(ProviderOrder)}

Models == {"m1", "m2", "m3", "m4", "ghost"}

\* The k-th configuration snapshot the ConfigManager serves: which providers
\* are enabled (with an API key) and the models listed for each.
\* (snapshot 0 stands for the registry before its first load: nothing enabled)
SnapshotEnabled(k, pid) == k >= 1 /\ (IF pid = "siliconflow" THEN TRUE ELSE k % 2 = 0)

SnapshotModels(k, pid) ==
  IF pid = "siliconflow"
  THEN {"m1"} \cup (IF k % 2 = 1 THEN {"m2"} ELSE {})
  ELSE {"m3"} \cup (IF k % 2 = 0 THEN {"m4"} ELSE {})

SnapshotBound(k) ==
  UNION {SnapshotModels(k, pid) : pid \in {p \in ProviderIds : SnapshotEnabled(k, p)}}

\* A provider instance is identified by the run that constructed it and its id.
Insts == RunIds \X ProviderIds
NoInst == <<0, "none">>

VARIABLES
  \* ProviderRegistry
  modelProviders,   \* Map<modelName, Provider>
  providers,        \* Map<providerId, Provider>
  \* BaseProvider health record, per instance
  isHealthy,
  errorCount,
  \* StreamHandler
  activeStreams,    \* keys of the activeStreams map
  nextStreamId,
  \* one record per inbound request (route handler + forwardRequest + session)
  req

VARIABLES
  \* ProviderRegistry.readWriteLock
  readers, writers, waitingWriters,
  \* the event loop, as far as the registry's callers use it
  mq,               \* microtask queue: continuations of resolved awaits, FIFO
  timers,           \* pending setTimeout(resolve, 1) polls, in arming order
  immediates,       \* pending setImmediate callbacks of onConfigChanged
  pc,               \* position of every registry caller
  \* ConfigManager
  config,           \* number of the snapshot currently held in this.config
  \* NewProviderManager.initializeProviders runs and getProviderForModel calls
  run, lk,
  window            \* snapshots installed or being installed since the registry was last at rest

LookupIds == 1..NumLookups

\* the registry's callers: the clear() of a run, the run itself
\* (initializeProviders and the registerProvider it awaits), its trailing
\* getAllModels(), and the lookups
ClearP(r) == <<"clear", r>>
InitP(r) == <<"init", r>>
ModelsP(r) == <<"models", r>>
LookupP(l) == <<"lookup", l>>
\* a call of ProviderRegistry.reload(initCallback) and the registerProvider
\* call its callback makes
ReloadP == <<"reload", 1>>
CallbackP == <<"callback", 1>>
\* a request that goes through ProviderManagerCompat.forwardRequest while the
\* manager may not be initialised yet; caller q's initializeProviders is run q
\* and its lookup is lookup q
CallerIds == RunIds \cap LookupIds
EnsureP(q) == <<"ensure", q>>
Procs == {ClearP(r) : r \in RunIds} \cup {InitP(r) : r \in RunIds}
           \cup {ModelsP(r) : r \in RunIds} \cup {LookupP(l) : l \in LookupIds}
           \cup {ReloadP, CallbackP} \cup {EnsureP(q) : q \in CallerIds}

IdleLookup == [model |-> "none", result |-> "none", provider |-> NoInst,
               win |-> {}, during |-> FALSE, midRun |-> FALSE]

fwdVars == <<isHealthy, errorCount, activeStreams, nextStreamId, req>>
regMaps == <<modelProviders, providers>>
lockVars == <<readers, writers, waitingWriters, mq, timers, pc>>
regVars == <<lockVars, immediates, config, run, lk, window>>
vars == <<regMaps, fwdVars, regVars>>

\* ------------------------------------------------------------ BaseProvider

\* BaseProvider.resetErrorState
resetErrorState(h) == [h EXCEPT !.errorCount = 0, !.isHealthy = TRUE]

\* BaseProvider.handleError: the health part
handleErrorHealth(h) ==
  LET n == h.errorCount + 1
  IN [errorCount |-> n, isHealthy |-> IF n >= maxErrorCount THEN FALSE ELSE h.isHealthy]

\* BaseProvider.handleError: the classification of the raw failure
\* ("http500null": an error status whose JSON body is null, so that
\* error.response.data has no properties to read)
RawErrors == {"http429", "http401", "http403", "http500", "http500null",
              "ECONNABORTED", "ECONNREFUSED"}

\* the error handleError throws ("TypeError": reading data.error of null)
handleErrorKind(raw) ==
  CASE raw = "http429" -> "RateLimit"
    [] raw \in {"http401", "http403"} -> "Authentication"
    [] raw = "http500" -> "ProviderError"
    [] raw = "http500null" -> "TypeError"
    [] raw = "ECONNABORTED" -> "Timeout"
    [] OTHER -> "Network"

\* BaseProvider.checkHealth, success branch
checkHealthOk(h) == [h EXCEPT !.isHealthy = TRUE]

\* BaseProvider.checkHealth, failure branch
checkHealthFail(h) == [errorCount |-> h.errorCount + 1, isHealthy |-> FALSE]

Health(i) == [errorCount |-> errorCount[i], isHealthy |-> isHealthy[i]]

\* BaseProvider.getStatus().healthy
getStatusHealthy(i) == isHealthy[i]

\* -------------------------------------------------------- ProviderRegistry

\* getProviderForModel with the health check left out
getProviderForModelNoHealth(model) ==
  LET provider == modelProviders[model]
  IN IF provider = NoInst
     THEN [ok |-> FALSE, err |-> "ModelNotFound", provider |-> NoInst]
     ELSE IF providers[provider[2]] = NoInst
     THEN [ok |-> FALSE, err |-> "ProviderUnavailable", provider |-> provider]
     ELSE [ok |-> TRUE, err |-> "none", provider |-> provider]

\* ProviderRegistry.getProviderForModel, the body under the read lock:
\* the provider, or the error kind it throws.
getProviderForModel(model) ==
  LET provider == modelProviders[model]
  IN IF provider = NoInst
     THEN [ok |-> FALSE, err |-> "ModelNotFound", provider |-> NoInst]
     ELSE IF providers[provider[2]] = NoInst
     THEN [ok |-> FALSE, err |-> "ProviderUnavailable", provider |-> provider]
     ELSE IF ~isHealthy[provider]
     THEN [ok |-> FALSE, err |-> "ProviderUnhealthy", provider |-> provider]
     ELSE [ok |-> TRUE, err |-> "none", provider |-> provider]

\* a registration that sets the provider entry and leaves its models out
registerBodyProviderOnly(maps, providerId, provider, models) ==
  [providers |-> [maps.providers EXCEPT ![providerId] = provider],
   modelProviders |-> maps.modelProviders]

\* ProviderRegistry.registerProvider, the body under the write lock
registerBody(maps, providerId, provider, models) ==
  [providers |-> [maps.providers EXCEPT ![providerId] = provider],
   modelProviders |-> [m \in Models |->
                         IF m \in models THEN provider ELSE maps.modelProviders[m]]]

\* ProviderRegistry.clear, the body under the write lock
clearBody ==
  [providers |-> [p \in ProviderIds |-> NoInst],
   modelProviders |-> [m \in Models |-> NoInst]]

\* NewProviderManager.initializeProviders from provider index i on, for the run
\* numbered gen reading snapshot k: skip disabled providers, register the others.
RECURSIVE registerFrom(_, _, _, _)
registerFrom(maps, gen, k, i) ==
  IF i > Len(ProviderOrder) THEN maps
  ELSE LET pid == ProviderOrder[i]
       IN IF SnapshotEnabled(k, pid)
          THEN registerFrom(registerBody(maps, pid, <<gen, pid>>, SnapshotModels(k, pid)),
                            gen, k, i + 1)
          ELSE registerFrom(maps, gen, k, i + 1)

\* --------------------------------------------------------------- errors

VibeKinds == {"ModelNotFound", "ProviderUnavailable", "ProviderUnhealthy", "RateLimit",
              "Authentication", "Timeout", "Network", "ProviderError", "Stream",
              "Validation", "Internal"}

\* ErrorUtils.normalizeError throws instead of returning (data.error of null)
normalizeThrows(e) == e = "http500null"

\* ErrorUtils.normalizeError: taxonomy errors pass, raw failures are classified
normalizeError(e) ==
  IF e \in VibeKinds THEN e
  ELSE CASE e = "http429" -> "RateLimit"
         [] e \in {"http401", "http403"} -> "Authentication"
         [] e = "http500" -> "ProviderError"
         [] e = "ECONNABORTED" -> "Timeout"
         [] e = "ECONNREFUSED" -> "Network"
         [] OTHER -> "Internal"

\* ErrorUtils.getStatusCode
getStatusCode(kind) ==
  CASE kind \in {"ModelNotFound", "Validation"} -> 400
    [] kind = "RateLimit" -> 429
    [] kind = "Authentication" -> 500
    [] kind \in {"ProviderError", "ProviderUnavailable", "ProviderUnhealthy"} -> 503
    [] kind \in {"Timeout", "Network"} -> 504
    [] OTHER -> 500

\* ------------------------------------------------- usage (token counting)
Undef == -1

\* response.usage as the upstream returns it: missing (present = FALSE), or
\* an object with any of total_tokens, prompt_tokens and completion_tokens
UsageObjects ==
  {[present |-> TRUE, total |-> t, prompt |-> p, completion |-> c] :
     t \in {Undef, 9}, p \in {Undef, 3}, c \in {Undef, 2}}
  \cup {[present |-> FALSE, total |-> Undef, prompt |-> Undef, completion |-> Undef]}

\* a count that prefers the sum of the parts to total_tokens
calculateTokensUsedSumFirst(usage) ==
  IF ~usage.present THEN 0
  ELSE IF usage.completion # Undef /\ usage.prompt # Undef
       THEN usage.completion + usage.prompt
  ELSE IF usage.total # Undef THEN usage.total
  ELSE IF usage.completion # Undef THEN usage.completion
  ELSE IF usage.prompt # Undef THEN usage.prompt
  ELSE 0

\* RequestForwarder.calculateTokensUsed
calculateTokensUsed(usage) ==
  IF ~usage.present THEN 0
  ELSE IF usage.total # Undef THEN usage.total
  ELSE IF usage.completion # Undef /\ usage.prompt # Undef
       THEN usage.completion + usage.prompt
  ELSE IF usage.completion # Undef THEN usage.completion
  ELSE IF usage.prompt # Undef THEN usage.prompt
  ELSE 0

\* StreamHandler.calculateTokensUsed
calculateTokensUsedStream(usage) ==
  IF ~usage.present THEN 0
  ELSE IF usage.total # Undef THEN usage.total
  ELSE IF usage.completion # Undef /\ usage.prompt # Undef
       THEN usage.completion + usage.prompt
  ELSE IF usage.completion # Undef THEN usage.completion
  ELSE IF usage.prompt # Undef THEN usage.prompt
  ELSE 0

\* ProviderManagerCompat.calculateTokensUsed
calculateTokensUsedCompat(usage) ==
  IF ~usage.present THEN 0
  ELSE IF usage.total # Undef THEN usage.total
  ELSE IF usage.completion # Undef /\ usage.prompt # Undef
       THEN usage.completion + usage.prompt
  ELSE IF usage.completion # Undef THEN usage.completion
  ELSE IF usage.prompt # Undef THEN usage.prompt
  ELSE 0

\* ------------------------------------------------------- request records

NoHandle == [st |-> "none", rel |-> 0]
NoResponse == [present |-> FALSE, total |-> Undef, prompt |-> Undef, completion |-> 0]

IdleReq ==
  [pc |-> "idle", bodyModel |-> "none", model |-> "none", stream |-> FALSE,
   provider |-> NoInst,
   outcome |-> "none", upstreamOk |-> FALSE,
   response |-> NoResponse, returned |-> NoResponse,
   streamId |-> 0, upstream |-> NoHandle, downstream |-> NoHandle,
   timer |-> "unset", trigger |-> "none",
   headersSent |-> FALSE, res |-> "open", closed |-> FALSE, callerGone |-> FALSE,
   chunks |-> 0, buf |-> <<>>, sent |-> <<>>, resLog |-> <<>>, usage |-> <<>>]

\* stream.destroy(): releases the handle once, later calls change nothing
destroy(h) == IF h.st = "open" THEN [st |-> "destroyed", rel |-> h.rel + 1] ELSE h

\* res.write(...) of an error body or frame, as the caller's response sees it
resWrite(s, op, by, status) ==
  [s EXCEPT !.resLog = Append(@, [op |-> op, by |-> by, status |-> status,
                                  st |-> s.res, gone |-> s.callerGone])]

\* res.end()
resEnd(s) == [s EXCEPT !.res = IF @ = "open" THEN "ended" ELSE @]

\* errorHandler itself threw: express falls back to its default handling,
\* which drops the connection once headers were sent and answers 500 otherwise
errorHandlerThrew(s) ==
  IF s.headersSent THEN [s EXCEPT !.res = "destroyed"]
  ELSE resEnd(resWrite(s, "html", "express", 500))

\* ErrorUtils.errorHandler
errorHandler(s, err) ==
  IF normalizeThrows(err) THEN errorHandlerThrew(s)
  ELSE IF s.stream
  THEN resEnd(resWrite(s, "errorFrame", "errorHandler", 0))
  ELSE resEnd(resWrite(s, "json", "errorHandler", getStatusCode(normalizeError(err))))

\* chat route: catch (error) { next(error) } -> the error handler
routeCatch(s, err) == errorHandler([s EXCEPT !.outcome = err, !.pc = "done"], err)

\* chat route: the non-streaming success branch, res.json(response)
routeJson(s) ==
  resEnd(resWrite([s EXCEPT !.outcome = "returned", !.pc = "done"], "json", "route", 200))

\* database.recordRequest as called by the forwarder (threw: the sink raised)
\* (error: the error whose message is recorded, "null" for a success)
recordRequest(s, success, tokensUsed, error, threw) ==
  [s EXCEPT !.usage = Append(@, [success |-> success, tokensUsed |-> tokensUsed,
                                 error |-> error, threw |-> threw])]

\* RequestForwarder.recordRequestFailure: a throwing sink is logged and swallowed
recordRequestFailure(s, error, threw) == recordRequest(s, FALSE, 0, error, threw)

\* a lookup catch that records the failure like the catch further down
lookupCatchRecords(s, err) == routeCatch(recordRequestFailure(s, err, FALSE), err)

\* RequestForwarder.forwardRequest: the catch around getProviderForModel
\* logs and rethrows
lookupCatch(s, err) == routeCatch(s, err)

\* a catch that records the failure and raises a wrapped error instead
forwardCatchWraps(s, err, threw) == routeCatch(recordRequestFailure(s, err, threw), "Internal")

\* RequestForwarder.forwardRequest: catch (error) { recordRequestFailure; throw }
forwardCatch(s, err, threw) == routeCatch(recordRequestFailure(s, err, threw), err)

\* a success branch that only counts usage.total_tokens
forwardSuccessTotalOnly(s, usage, threw1, threw2) ==
  LET s1 == recordRequest(s, TRUE, IF usage.total # Undef THEN usage.total ELSE 0,
                          "null", threw1)
  IN IF threw1 THEN forwardCatch(s1, "DatabaseThrow", threw2)
     ELSE routeJson([s1 EXCEPT !.returned = s.response])

\* RequestForwarder.forwardRequest, non-streaming branch after chatCompletion
\* returned; recordRequestSuccess has no try/catch of its own.
forwardSuccess(s, usage, threw1, threw2) ==
  LET s1 == recordRequest(s, TRUE, calculateTokensUsed(usage), "null", threw1)
  IN IF threw1 THEN forwardCatch(s1, "DatabaseThrow", threw2)
     ELSE routeJson([s1 EXCEPT !.returned = s.response])

\* ------------------------------------------------------------ StreamHandler

\* StreamHandler.sendStreamError (its catch only ends the response)
sendStreamError(s, err) ==
  IF normalizeThrows(err) THEN resEnd(s)
  ELSE resEnd(resWrite(s, "errorFrame", "StreamHandler", 0))

\* abortStream that forgets the session without destroying its streams
abortStreamForgets(w) ==
  IF w.s.streamId \in w.act THEN [w EXCEPT !.act = @ \ {w.s.streamId}] ELSE w

\* StreamHandler.abortStream, on the world w = [s: session, act: activeStreams]
abortStream(w) ==
  IF w.s.streamId \in w.act
  THEN [s |-> [w.s EXCEPT !.upstream = destroy(@), !.downstream = destroy(@)],
        act |-> w.act \ {w.s.streamId}]
  ELSE w

\* StreamHandler.handleStream: res.on('close', ...) listener
resCloseListener(w) ==
  IF w.s.downstream.st # "destroyed"
  THEN [s |-> [w.s EXCEPT !.downstream = destroy(@), !.upstream = destroy(@),
                          !.timer = IF @ = "armed" THEN "cleared" ELSE @],
        act |-> w.act \ {w.s.streamId}]
  ELSE w

\* data.usage of the SSE chunk numbered k: upstream attaches a usage object
\* to every second chunk, the others carry none
ChunkUsage(k) ==
  IF k % 2 = 0
  THEN [present |-> TRUE, total |-> Undef, prompt |-> 3, completion |-> k]
  ELSE [present |-> FALSE, total |-> Undef, prompt |-> Undef, completion |-> Undef]

\* a relay that hands the newest buffered chunk to the caller first
relayNewestFirst(s) ==
  [s EXCEPT !.sent = Append(@, s.buf[Len(s.buf)]), !.buf = SubSeq(@, 1, Len(@) - 1)]

\* pipeline(upstream, downstream, res, cb): the oldest chunk buffered in the
\* PassThrough is written to res
relay(s) == [s EXCEPT !.sent = Append(@, Head(s.buf)), !.buf = Tail(@)]

\* a chain that does not propagate the teardown to the PassThrough, as
\* upstream.pipe(downstream).pipe(res) would
pipelineTeardownKeepsDownstream(s) ==
  [s EXCEPT !.upstream = destroy(@), !.res = "destroyed"]

\* pipeline(upstream, downstream, res, cb): a stream of the chain failed or
\* closed early, every stream of the chain is destroyed before cb is called
pipelineTeardown(s) ==
  [s EXCEPT !.upstream = destroy(@), !.downstream = destroy(@), !.res = "destroyed",
            !.buf = <<>>]

\* pipeline(upstream, downstream, res, cb): upstream ended and everything was
\* flushed; the ended streams are released and res is ended
pipelineFinish(s) ==
  [s EXCEPT !.upstream = destroy(@), !.downstream = destroy(@),
            !.res = IF @ = "open" THEN "ended" ELSE @]

\* the pipeline callback without clearTimeout(timeoutId)
pipelineCallbackKeepsTimer(w, error, threw) ==
  LET s1 == w.s
      act1 == w.act \ {w.s.streamId}
  IN IF error # "none"
     THEN [s |-> forwardCatch(IF ~s1.headersSent THEN sendStreamError(s1, error) ELSE s1,
                              error, threw),
           act |-> act1]
     ELSE [s |-> [s1 EXCEPT !.outcome = "returned", !.pc = "done"], act |-> act1]

\* the pipeline callback without this.activeStreams.delete(streamId)
pipelineCallbackKeepsEntry(w, error, threw) ==
  LET s1 == [w.s EXCEPT !.timer = IF @ = "armed" THEN "cleared" ELSE @]
  IN IF error # "none"
     THEN [s |-> forwardCatch(IF ~s1.headersSent THEN sendStreamError(s1, error) ELSE s1,
                              error, threw),
           act |-> w.act]
     ELSE [s |-> [s1 EXCEPT !.outcome = "returned", !.pc = "done"], act |-> w.act]

\* StreamHandler.handleStream: the pipeline callback, followed by what its
\* resolve/reject resumes (forwardRequest, the route, the error handler)
pipelineCallback(w, error, threw) ==
  LET s1 == [w.s EXCEPT !.timer = IF @ = "armed" THEN "cleared" ELSE @]
      act1 == w.act \ {w.s.streamId}
  IN IF error # "none"
     THEN [s |-> forwardCatch(IF ~s1.headersSent THEN sendStreamError(s1, error) ELSE s1,
                              error, threw),
           act |-> act1]
     ELSE [s |-> [s1 EXCEPT !.outcome = "returned", !.pc = "done"], act |-> act1]

\* what makes the pipeline give up: one of its streams was destroyed early
pipelineBroken(s) ==
  s.upstream.st = "destroyed" \/ s.downstream.st = "destroyed" \/ s.res = "destroyed"

\* the pipeline's reaction to a task that may have destroyed a stream:
\* teardown and callback if it did, nothing otherwise
pipelineReact(w, threw) ==
  IF w.s.pc = "relaying" /\ pipelineBroken(w.s)
  THEN pipelineCallback([w EXCEPT !.s = pipelineTeardown(@)], "PrematureClose", threw)
  ELSE w

World(r) == [s |-> req[r], act |-> activeStreams]

Install(r, w) ==
  /\ req' = [req EXCEPT ![r] = w.s]
  /\ activeStreams' = w.act

\* ================================================================== Spec
\* Request forwarding over the registry as startup left it.

\* the model the chat route falls back to, bound by every snapshot
DefaultModel == "m1"

\* chat route: if (!request.model) request.model = 'Qwen/Qwen3-8B'
\* (validateRequest lets a body without max_tokens and messages through)
routeModel(bodyModel) == IF bodyModel = "absent" THEN DefaultModel ELSE bodyModel

\* chat route -> forwardRequest up to its first await on the network:
\* the lookup, then chatCompletion's request is sent, or handleStream starts
\* (streamId, setupStreamResponse, createUpstreamStream's request is sent).
Arrive(r, bodyModel, stream) ==
  /\ req[r].pc = "idle"
  /\ \A q \in ReqIds : q < r => req[q].pc # "idle"
  /\ LET model == routeModel(bodyModel)
         found == getProviderForModel(model)
         s0 == [req[r] EXCEPT !.bodyModel = bodyModel, !.model = model, !.stream = stream]
     IN IF ~found.ok
        THEN /\ req' = [req EXCEPT ![r] = lookupCatch(s0, found.err)]
             /\ UNCHANGED nextStreamId
        ELSE IF stream
        THEN /\ req' = [req EXCEPT ![r] = [s0 EXCEPT !.provider = found.provider,
                                                     !.pc = "opening",
                                                     !.streamId = nextStreamId,
                                                     !.headersSent = TRUE]]
             /\ nextStreamId' = nextStreamId + 1
        ELSE /\ req' = [req EXCEPT ![r] = [s0 EXCEPT !.provider = found.provider,
                                                     !.pc = "completing"]]
             /\ UNCHANGED nextStreamId
  /\ UNCHANGED <<regMaps, regVars, isHealthy, errorCount, activeStreams>>

SetHealth(i, h) ==
  /\ isHealthy' = [isHealthy EXCEPT ![i] = h.isHealthy]
  /\ errorCount' = [errorCount EXCEPT ![i] = h.errorCount]

\* BaseProvider.chatCompletion resolves; forwardRequest records and returns
CompletionSucceeds(r, usage, threw1, threw2) ==
  /\ req[r].pc = "completing"
  /\ SetHealth(req[r].provider, resetErrorState(Health(req[r].provider)))
  /\ req' = [req EXCEPT ![r] = forwardSuccess([req[r] EXCEPT !.upstreamOk = TRUE,
                                                             !.response = usage],
                                              usage, threw1, threw2)]
  /\ UNCHANGED <<regMaps, regVars, activeStreams, nextStreamId>>

\* BaseProvider.chatCompletion fails: handleError, then forwardRequest's catch
CompletionFails(r, raw, threw) ==
  /\ req[r].pc = "completing"
  /\ errorCount[req[r].provider] < MaxErrors
  /\ SetHealth(req[r].provider, handleErrorHealth(Health(req[r].provider)))
  /\ req' = [req EXCEPT ![r] = forwardCatch(req[r], handleErrorKind(raw), threw)]
  /\ UNCHANGED <<regMaps, regVars, activeStreams, nextStreamId>>

Registered == {providers[p] : p \in ProviderIds} \ {NoInst}

\* BaseProvider.checkHealth, the probe succeeded
CheckHealthSucceeds(i) ==
  /\ i \in Registered
  /\ SetHealth(i, checkHealthOk(Health(i)))
  /\ UNCHANGED <<regMaps, regVars, activeStreams, nextStreamId, req>>

\* BaseProvider.checkHealth, the probe failed
CheckHealthFails(i) ==
  /\ i \in Registered
  /\ errorCount[i] < MaxErrors
  /\ SetHealth(i, checkHealthFail(Health(i)))
  /\ UNCHANGED <<regMaps, regVars, activeStreams, nextStreamId, req>>

\* StreamHandler.handleStream after createUpstreamStream resolved: the
\* session is registered, the timer armed, the pipeline and listener set up
OpenSucceeds(r) ==
  /\ req[r].pc = "opening"
  /\ req' = [req EXCEPT ![r] = [@ EXCEPT !.pc = "relaying",
                                         !.upstream = [st |-> "open", rel |-> 0],
                                         !.downstream = [st |-> "open", rel |-> 0],
                                         !.timer = "armed"]]
  /\ activeStreams' = activeStreams \cup {req[r].streamId}
  /\ UNCHANGED <<regMaps, regVars, isHealthy, errorCount, nextStreamId>>

\* StreamHandler.handleStream: createUpstreamStream rejected, the setup catch
OpenFails(r, raw, threw) ==
  /\ req[r].pc = "opening"
  /\ Install(r, [s |-> forwardCatch(sendStreamError([req[r] EXCEPT !.trigger = "openfail"], raw),
                                    raw, threw),
                 act |-> activeStreams \ {req[r].streamId}])
  /\ UNCHANGED <<regMaps, regVars, isHealthy, errorCount, nextStreamId>>

\* upstream emits its next chunk, which the pipeline buffers in the PassThrough
UpstreamChunk(r) ==
  /\ req[r].pc = "relaying"
  /\ req[r].chunks < MaxChunks
  /\ req' = [req EXCEPT ![r].chunks = @ + 1, ![r].buf = Append(@, req[r].chunks + 1)]
  /\ UNCHANGED <<regMaps, regVars, isHealthy, errorCount, activeStreams, nextStreamId>>

\* the pipeline writes a buffered chunk to the caller
Flush(r) ==
  /\ req[r].pc = "relaying"
  /\ req[r].buf # <<>>
  /\ req' = [req EXCEPT ![r] = relay(@)]
  /\ UNCHANGED <<regMaps, regVars, isHealthy, errorCount, activeStreams, nextStreamId>>

\* upstream ended, everything was flushed and the pipeline completes
UpstreamEnd(r) ==
  /\ req[r].pc = "relaying"
  /\ req[r].buf = <<>>
  /\ Install(r, pipelineCallback([s |-> pipelineFinish([req[r] EXCEPT !.trigger = "end"]),
                                  act |-> activeStreams],
                                 "none", FALSE))
  /\ UNCHANGED <<regMaps, regVars, isHealthy, errorCount, nextStreamId>>

\* StreamHandler.createUpstreamStream: upstream 'error' listener; the
\* pipeline sees the same error
UpstreamError(r, threw) ==
  /\ req[r].pc = "relaying"
  /\ LET s0 == [req[r] EXCEPT !.trigger = "error", !.upstream = destroy(destroy(@))]
     IN Install(r, pipelineCallback([s |-> pipelineTeardown(s0), act |-> activeStreams],
                                    "UpstreamIO", threw))
  /\ UNCHANGED <<regMaps, regVars, isHealthy, errorCount, nextStreamId>>

\* StreamHandler.handleStream: the deadline timer's callback, then the
\* pipeline reacts to the destroyed streams
TimerFires(r, threw) ==
  /\ req[r].timer = "armed"
  /\ LET w0 == [s |-> [req[r] EXCEPT !.timer = "fired",
                                     !.trigger = IF req[r].pc = "relaying"
                                                 THEN "timer" ELSE @],
                act |-> activeStreams]
     IN Install(r, pipelineReact(abortStream(w0), threw))
  /\ UNCHANGED <<regMaps, regVars, isHealthy, errorCount, nextStreamId>>

\* the caller's connection closes: res emits 'close' to the pipeline's
\* listener and to the one handleStream registered (either may run first).
\* After the session ended only handleStream's listener has anything to do.
ResClose(r, pipelineFirst, threw) ==
  /\ req[r].stream
  /\ req[r].upstream.st # "none"
  /\ ~req[r].closed
  /\ IF req[r].pc = "relaying"
     THEN LET w0 == [s |-> [req[r] EXCEPT !.closed = TRUE, !.callerGone = TRUE,
                                          !.res = "destroyed", !.trigger = "close"],
                     act |-> activeStreams]
          IN IF pipelineFirst
             THEN Install(r, pipelineCallback(
                               resCloseListener([w0 EXCEPT !.s = pipelineTeardown(@)]),
                               "PrematureClose", threw))
             ELSE Install(r, pipelineReact(resCloseListener(w0), threw))
     ELSE Install(r, resCloseListener([s |-> [req[r] EXCEPT !.closed = TRUE],
                                       act |-> activeStreams]))
  /\ UNCHANGED <<regMaps, regVars, isHealthy, errorCount, nextStreamId>>

\* StreamHandler.cleanupAllStreams, then every pipeline it tore down calls back
CleanupAllStreams(threw) ==
  /\ activeStreams # {}
  /\ req' = [r \in ReqIds |->
               IF req[r].streamId \in activeStreams
               THEN pipelineReact([s |-> [req[r] EXCEPT !.trigger = "cleanup",
                                                        !.upstream = destroy(@),
                                                        !.downstream = destroy(@)],
                                   act |-> {}],
                                  threw).s
               ELSE req[r]]
  /\ activeStreams' = {}
  /\ UNCHANGED <<regMaps, regVars, isHealthy, errorCount, nextStreamId>>

IdleLock ==
  /\ readers = 0 /\ writers = 0 /\ waitingWriters = 0
  /\ mq = <<>> /\ timers = <<>> /\ immediates = 0

\* The registry as NewProviderManager.initialize leaves it for snapshot 1,
\* every provider as its constructor leaves it, no request yet.
Init ==
  /\ LET maps == registerFrom(clearBody, 1, 1, 1)
     IN /\ modelProviders = maps.modelProviders
        /\ providers = maps.providers
  /\ isHealthy = [i \in Insts |-> TRUE]
  /\ errorCount = [i \in Insts |-> 0]
  /\ activeStreams = {}
  /\ nextStreamId = 1
  /\ req = [r \in ReqIds |-> IdleReq]
  /\ IdleLock
  /\ pc = [p \in Procs |-> "done"]
  /\ run = [r \in RunIds |-> [snap |-> 1, idx |-> 0, mcfg |-> [p \in ProviderIds |-> 1]]]
  /\ lk = [l \in LookupIds |-> IdleLookup]
  /\ config = 1
  /\ window = {1}

Next ==
  \/ \E r \in ReqIds, model \in {"m1", "ghost"}, stream \in BOOLEAN : Arrive(r, model, stream)
  \/ \E r \in ReqIds : Arrive(r, "absent", FALSE)
  \/ \E r \in ReqIds, usage \in UsageObjects, threw1 \in BOOLEAN, threw2 \in BOOLEAN :
        CompletionSucceeds(r, usage, threw1, threw2)
  \/ \E r \in ReqIds, raw \in RawErrors, threw \in BOOLEAN : CompletionFails(r, raw, threw)
  \/ \E i \in Insts : CheckHealthSucceeds(i)
  \/ \E i \in Insts : CheckHealthFails(i)
  \/ \E r \in ReqIds : OpenSucceeds(r)
  \/ \E r \in ReqIds, raw \in RawErrors, threw \in BOOLEAN : OpenFails(r, raw, threw)
  \/ \E r \in ReqIds : UpstreamChunk(r)
  \/ \E r \in ReqIds : Flush(r)
  \/ \E r \in ReqIds : UpstreamEnd(r)
  \/ \E r \in ReqIds, threw \in BOOLEAN : UpstreamError(r, threw)
  \/ \E r \in ReqIds, threw \in BOOLEAN : TimerFires(r, threw)
  \/ \E r \in ReqIds, pipelineFirst \in BOOLEAN, threw \in BOOLEAN :
        ResClose(r, pipelineFirst, threw)
  \/ \E threw \in BOOLEAN : CleanupAllStreams(threw)

Spec == Init /\ [][Next]_vars

\* ------------------------------------------------------- claims under Spec

\* the terminal state of \S 4.4 a finished stream session reached
TerminalState(s) ==
  CASE s.trigger = "end" -> "Completed"
    [] s.trigger = "timer" -> "TimedOut"
    [] s.trigger = "close" -> "Aborted"
    [] OTHER -> "Failed"

Session(r) == req[r].stream /\ req[r].trigger # "none"
Released(h) == h.st = "destroyed" /\ h.rel = 1

\* C1: every stream session that reached a terminal state has emitted exactly
\* one UsageEvent, whose success flag is true iff the state is Completed.
C1_OneUsageEventPerSession ==
  \A r \in ReqIds :
    (Session(r) /\ req[r].pc = "done") =>
      /\ Len(req[r].usage) = 1
      /\ req[r].usage[1].success = (TerminalState(req[r]) = "Completed")

\* C2: after every terminal transition of a session that was relaying (end,
\* upstream error, timer, caller close, cleanupAllStreams) both handles are
\* destroyed, and each was released exactly once, whatever fired afterwards.
C2_HandlesReleasedOnce ==
  \A r \in ReqIds :
    /\ req[r].upstream.rel <= 1 /\ req[r].downstream.rel <= 1
    /\ (req[r].pc = "done" /\ req[r].trigger \in {"end", "error", "timer", "close", "cleanup"})
         => (Released(req[r].upstream) /\ Released(req[r].downstream))

\* a session ended by an upstream error whose response then closed
C2_Witness ==
  \E r \in ReqIds :
    /\ req[r].trigger = "error" /\ req[r].closed
    /\ Released(req[r].upstream) /\ Released(req[r].downstream)

C5_SinkFailureSwallowed ==
  \A r \in ReqIds :
    (req[r].pc = "done" /\ req[r].upstreamOk) => req[r].outcome = "returned"

\* C6: one successful chatCompletion or one successful checkHealth leaves the
\* provider with errorCount = 0 and healthy = true, from any health state.
C6_SuccessResets ==
  [][\A i \in Insts :
       ( \/ CheckHealthSucceeds(i)
         \/ \E r \in ReqIds, u \in UsageObjects, t1 \in BOOLEAN, t2 \in BOOLEAN :
              req[r].provider = i /\ CompletionSucceeds(r, u, t1, t2) )
       => (errorCount'[i] = 0 /\ isHealthy'[i])]_vars

\* C7: a provider whose errorCount has reached maxErrorCount is unhealthy, is
\* reported so by getStatus and is refused by getProviderForModel.
C7_ThresholdMeansUnhealthy ==
  \A i \in Insts :
    errorCount[i] >= maxErrorCount =>
      /\ ~getStatusHealthy(i)
      /\ \A m \in Models :
           modelProviders[m] = i => getProviderForModel(m).err = "ProviderUnhealthy"

\* C8: once the deadline timer of a session has fired, the session is over in
\* TimedOut, both handles are released, it is no longer tracked and exactly
\* one UsageEvent, with success = false, was emitted.
C8_TimeoutEndsSession ==
  \A r \in ReqIds :
    req[r].timer = "fired" =>
      /\ req[r].pc = "done" /\ TerminalState(req[r]) = "TimedOut"
      /\ Released(req[r].upstream) /\ Released(req[r].downstream)
      /\ req[r].streamId \notin activeStreams
      /\ Len(req[r].usage) = 1 /\ ~req[r].usage[1].success

\* a session timed out after relaying some chunks
C8_Witness == \E r \in ReqIds : req[r].timer = "fired" /\ req[r].chunks > 0

\* C9: when the caller disconnects mid-relay both handles are released and
\* nothing is written to the caller's response afterwards, by any layer.
C9_NoWriteAfterCallerClose ==
  \A r \in ReqIds :
    req[r].trigger = "close" =>
      /\ Released(req[r].upstream) /\ Released(req[r].downstream)
      /\ \A k \in 1..Len(req[r].resLog) : ~req[r].resLog[k].gone

\* C10: the first of timer, end of stream and caller close decides the
\* outcome; the timer is disarmed on every terminal transition; and nothing
\* that fires after the session is over touches a handle, the response or the
\* usage sink (only the fact that the response closed is recorded).
C10_FirstTerminalEventWins ==
  [][\A r \in ReqIds :
       /\ req'[r].pc = "done" => req'[r].timer # "armed"
       /\ (req'[r].stream /\ req'[r].trigger # "none" /\ req'[r].pc = "done") =>
            ((req'[r].outcome = "returned") <=> (req'[r].trigger = "end"))
       /\ req[r].pc = "done" =>
            /\ req'[r] = [req[r] EXCEPT !.closed = req'[r].closed]
            /\ (req[r].streamId \notin activeStreams) => (req[r].streamId \notin activeStreams')]_vars

\* a completed session whose response closed afterwards
C10_Witness ==
  \E r \in ReqIds :
    /\ req[r].trigger = "end" /\ req[r].closed /\ req[r].timer = "cleared"
    /\ req[r].outcome = "returned"

\* what reached the caller: the writes made while the response was open
Delivered(s) == {k \in 1..Len(s.resLog) : s.resLog[k].st = "open"}

\* C11: a failing streaming request (lookup failure, open failure, mid-relay
\* failure, timeout) delivers exactly one error to the caller: an HTTP error
\* status with a body when nothing had been sent, one SSE error frame when
\* the stream had started.
C11_OneErrorToCaller ==
  \A r \in ReqIds :
    (req[r].pc = "done" /\ req[r].stream /\ req[r].outcome # "returned"
       /\ req[r].trigger \in {"none", "openfail", "error", "timer"}) =>
      /\ Cardinality(Delivered(req[r])) = 1
      /\ \A k \in Delivered(req[r]) :
           IF req[r].headersSent
           THEN req[r].resLog[k].op = "errorFrame"
           ELSE req[r].resLog[k].op = "json" /\ req[r].resLog[k].status >= 400

\* C12: a failed chatCompletion on the non-streaming path emits exactly one
\* UsageEvent (success = false, tokensUsed = 0, the error's message) and the
\* error chatCompletion raised is what the caller of forwardRequest gets.
C12_FailureRecordedAndReraised ==
  [][\A r \in ReqIds, raw \in RawErrors, threw \in BOOLEAN :
       CompletionFails(r, raw, threw) =>
         /\ req'[r].usage = <<[success |-> FALSE, tokensUsed |-> 0,
                               error |-> handleErrorKind(raw), threw |-> threw]>>
         /\ req'[r].outcome = handleErrorKind(raw)]_vars

\* a rate-limited completion was recorded although the sink raised
C12_Witness ==
  \E r \in ReqIds :
    /\ ~req[r].stream /\ req[r].outcome = "RateLimit"
    /\ Len(req[r].usage) = 1 /\ req[r].usage[1].threw

\* C13: a non-streaming forwardRequest that succeeded emitted exactly one
\* UsageEvent, with success = true and the token count of response.usage,
\* and returned the provider's response itself.
C13_SuccessRecordedAndReturned ==
  \A r \in ReqIds :
    (~req[r].stream /\ req[r].pc = "done" /\ req[r].outcome = "returned") =>
      /\ req[r].usage = <<[success |-> TRUE,
                           tokensUsed |-> calculateTokensUsed(req[r].response),
                           error |-> "null", threw |-> FALSE]>>
      /\ req[r].response \in UsageObjects
      /\ req[r].returned = req[r].response

\* a returned response without total_tokens was counted from its parts
C13_Witness ==
  \E r \in ReqIds :
    /\ ~req[r].stream /\ req[r].outcome = "returned"
    /\ req[r].returned.total = Undef /\ req[r].usage[1].tokensUsed = 5

\* C14: when the lookup inside forwardRequest fails, the caller gets the
\* lookup's error, no upstream call is made (no provider, no stream id, the
\* request is over) and no UsageEvent is emitted.
C14_LookupFailurePropagates ==
  [][\A r \in ReqIds, m \in Models, st \in BOOLEAN :
       (Arrive(r, m, st) /\ ~getProviderForModel(m).ok) =>
         /\ req'[r].outcome = getProviderForModel(m).err
         /\ req'[r].usage = <<>>
         /\ req'[r].pc = "done" /\ req'[r].provider = NoInst
         /\ req'[r].streamId = 0 /\ nextStreamId' = nextStreamId]_vars

\* a streaming request for an unbound model was refused
C14_Witness ==
  \E r \in ReqIds :
    req[r].stream /\ req[r].outcome = "ModelNotFound" /\ req[r].usage = <<>>

\* C17: a failed checkHealth adds one to errorCount and leaves a healthy
\* provider healthy as long as errorCount stays below the threshold.
C17_FailedProbeCountsTowardsThreshold ==
  [][\A i \in Insts :
       CheckHealthFails(i) =>
         /\ errorCount'[i] = errorCount[i] + 1
         /\ (isHealthy[i] /\ errorCount[i] < maxErrorCount - 1) => isHealthy'[i]]_vars

\* C18: opening the upstream stream of a streaming request updates the
\* provider's error counter as chatCompletion does: reset to zero (and
\* healthy) on success, one more on failure.
C18_OpenStreamUpdatesErrorCount ==
  [][\A r \in ReqIds :
       /\ OpenSucceeds(r) =>
            (errorCount'[req[r].provider] = 0 /\ isHealthy'[req[r].provider])
       /\ \A raw \in RawErrors, threw \in BOOLEAN :
            OpenFails(r, raw, threw) =>
              errorCount'[req[r].provider] = errorCount[req[r].provider] + 1]_vars

\* the taxonomy error the classification rules give for a raw failure
TaxonomyOf(raw) ==
  CASE raw = "http429" -> "RateLimit"
    [] raw \in {"http401", "http403"} -> "Authentication"
    [] raw \in {"http500", "http500null"} -> "ProviderError"
    [] raw = "ECONNABORTED" -> "Timeout"
    [] OTHER -> "Network"

\* C19: when opening the upstream stream fails, the caller of handleStream /
\* forwardRequest gets a classified taxonomy error (RateLimit, Authentication,
\* Timeout, Network or ProviderError), not the raw transport error.
C19_OpenFailureClassified ==
  \A r \in ReqIds :
    (req[r].trigger = "openfail" /\ req[r].pc = "done") =>
      req[r].outcome \in {TaxonomyOf(raw) : raw \in RawErrors}

\* C20: every failure of chatCompletion raises the taxonomy error its raw
\* failure determines (429 -> RateLimit, 401/403 -> Authentication, other
\* status -> ProviderError, ECONNABORTED -> Timeout, else Network) and adds
\* exactly one to errorCount.
C20_HandleErrorClassifies ==
  [][\A r \in ReqIds, raw \in RawErrors, threw \in BOOLEAN :
       CompletionFails(r, raw, threw) =>
         /\ req'[r].outcome = TaxonomyOf(raw)
         /\ errorCount'[req[r].provider] = errorCount[req[r].provider] + 1]_vars

\* the status the mapping of the error kinds gives
StatusOf(kind) ==
  CASE kind \in {"Validation", "ModelNotFound"} -> 400
    [] kind = "RateLimit" -> 429
    [] kind = "Authentication" -> 500
    [] kind \in {"ProviderUnavailable", "ProviderUnhealthy", "ProviderError"} -> 503
    [] kind \in {"Timeout", "Network"} -> 504
    [] OTHER -> 500

\* C21: getStatusCode maps every error kind as the table says, and a request
\* that failed before anything was sent is answered with that status whether
\* it was synchronous or streaming.
C21_StatusMappingUniform ==
  /\ \A kind \in VibeKinds \cup {"Config", "Database"} : getStatusCode(kind) = StatusOf(kind)
  /\ \A r \in ReqIds :
       (req[r].pc = "done" /\ req[r].outcome \notin {"none", "returned"}
          /\ ~req[r].headersSent /\ ~normalizeThrows(req[r].outcome)) =>
         /\ Delivered(req[r]) # {}
         /\ \A k \in Delivered(req[r]) :
              req[r].resLog[k].status = StatusOf(normalizeError(req[r].outcome))

\* C22: when opening the upstream stream fails, the stream handler has
\* written nothing to the caller: no headers flushed, no body bytes.
C22_OpenFailureWritesNothing ==
  \A r \in ReqIds :
    req[r].trigger = "openfail" =>
      /\ ~req[r].headersSent
      /\ \A k \in 1..Len(req[r].resLog) : req[r].resLog[k].by # "StreamHandler"

\* C23: a session that failed on an upstream I/O error after opening either
\* got a structured error body (headers not yet sent) or had its connection
\* terminated with nothing written afterwards by any layer (headers sent).
C23_UpstreamErrorAfterOpening ==
  \A r \in ReqIds :
    (req[r].trigger = "error" /\ req[r].pc = "done") =>
      IF req[r].headersSent
      THEN req[r].res = "destroyed" /\ req[r].resLog = <<>>
      ELSE \E k \in Delivered(req[r]) : req[r].resLog[k].op = "json"

\* C24: when the deadline timer ends a session, an error frame reaches the
\* caller iff no upstream bytes had been flushed to the caller before.
C24_TimeoutFrameIffNothingSent ==
  \A r \in ReqIds :
    req[r].timer = "fired" =>
      ((\E k \in Delivered(req[r]) : req[r].resLog[k].op = "errorFrame")
         <=> req[r].sent = <<>>)

TokensOf(u) ==
  CASE ~u.present -> 0
    [] u.total # Undef -> u.total
    [] u.prompt # Undef /\ u.completion # Undef -> u.prompt + u.completion
    [] u.completion # Undef -> u.completion
    [] u.prompt # Undef -> u.prompt
    [] OTHER -> 0

\* C26: calculateTokensUsed returns total_tokens when defined, else the sum of
\* the two parts when both are defined, else the one that is, else 0; the
\* copies in RequestForwarder, StreamHandler and ProviderManagerCompat agree on
\* every usage object, and every recorded success carries that count.
C26_TokenCount ==
  /\ \A u \in UsageObjects :
       /\ calculateTokensUsed(u) = TokensOf(u)
       /\ calculateTokensUsedStream(u) = calculateTokensUsed(u)
       /\ calculateTokensUsedCompat(u) = calculateTokensUsed(u)
  /\ \A r \in ReqIds : \A k \in 1..Len(req[r].usage) :
       req[r].usage[k].success => req[r].usage[k].tokensUsed = TokensOf(req[r].response)

\* a response with all three fields was counted by its total_tokens
C26_Witness ==
  \E r \in ReqIds :
    /\ req[r].outcome = "returned" /\ req[r].response.total = 9
    /\ req[r].response.prompt = 3 /\ req[r].response.completion = 2
    /\ req[r].usage[1].tokensUsed = 9

\* the chunks of a session that carried a usage object, in relay order
WithUsage(s) == {k \in 1..Len(s.sent) : ChunkUsage(s.sent[k]).present}

\* C27: a completed stream whose chunks carried a usage object has emitted
\* one UsageEvent whose token count is calculateTokensUsed of the last usage
\* object relayed.
C27_StreamTokensFromChunks ==
  \A r \in ReqIds :
    (req[r].trigger = "end" /\ req[r].pc = "done" /\ WithUsage(req[r]) # {}) =>
      LET last == CHOOSE k \in WithUsage(req[r]) : \A j \in WithUsage(req[r]) : j <= k
      IN /\ Len(req[r].usage) = 1
         /\ req[r].usage[1].tokensUsed
              = calculateTokensUsedStream(ChunkUsage(req[r].sent[last]))

\* C28: a chat-completions request whose body is empty is answered with
\* status 400 and an error object and is never forwarded to a provider.
C28_EmptyBodyRejected ==
  \A r \in ReqIds :
    req[r].bodyModel = "absent" =>
      /\ req[r].provider = NoInst
      /\ req[r].pc = "done" =>
           \E k \in Delivered(req[r]) :
             req[r].resLog[k].op = "json" /\ req[r].resLog[k].status = 400

Lock == [readers |-> readers, writers |-> writers, waitingWriters |-> waitingWriters,
         mq |-> mq, timers |-> timers, pc |-> pc]

SetLock(k) ==
  /\ readers' = k.readers /\ writers' = k.writers /\ waitingWriters' = k.waitingWriters
  /\ mq' = k.mq /\ timers' = k.timers /\ pc' = k.pc

\* await new Promise(resolve => setTimeout(resolve, 1))
park(k, p, label) == [k EXCEPT !.pc[p] = label, !.timers = Append(@, p)]

\* the async function returned: the caller's await resumes in a microtask
resume(k, p, label) == [k EXCEPT !.pc[p] = label, !.mq = Append(@, p)]

\* a write lock taken without waiting for the writer that holds it
writeLoopWritersNoWait(k, p) ==
  resume([k EXCEPT !.waitingWriters = @ - 1, !.writers = @ + 1], p, "Wbody")

\* ProviderRegistry.acquireWriteLock: while (writers > 0) ...; then take it
writeLoopWriters(k, p) ==
  IF k.writers > 0 THEN park(k, p, "WpollW")
  ELSE resume([k EXCEPT !.waitingWriters = @ - 1, !.writers = @ + 1], p, "Wbody")

\* ProviderRegistry.acquireWriteLock: while (readers > 0) ...
writeLoopReaders(k, p) ==
  IF k.readers > 0 THEN park(k, p, "WpollR") ELSE writeLoopWriters(k, p)

\* ProviderRegistry.acquireWriteLock, from the call to its first await or return
acquireWriteLock(k, p) == writeLoopReaders([k EXCEPT !.waitingWriters = @ + 1], p)

\* acquireReadLock that only waits for an active writer
acquireReadLockIgnoresWaiting(k, p) ==
  IF k.writers > 0 THEN park(k, p, "Rpoll")
  ELSE resume([k EXCEPT !.readers = @ + 1], p, "Rbody")

\* ProviderRegistry.acquireReadLock, from the call to its first await or return
acquireReadLock(k, p) ==
  IF k.writers > 0 \/ k.waitingWriters > 0 THEN park(k, p, "Rpoll")
  ELSE resume([k EXCEPT !.readers = @ + 1], p, "Rbody")

\* ProviderRegistry.releaseWriteLock
releaseWriteLock(k) == [k EXCEPT !.writers = @ - 1]

\* ProviderRegistry.releaseReadLock
releaseReadLock(k) == [k EXCEPT !.readers = @ - 1]

\* initializeProviders: the next provider from index i on that is enabled in
\* the providerConfigs the run captured (0: none left)
RECURSIVE nextEnabled(_, _)
nextEnabled(snap, i) ==
  IF i > Len(ProviderOrder) THEN 0
  ELSE IF SnapshotEnabled(snap, ProviderOrder[i]) THEN i
  ELSE nextEnabled(snap, i + 1)

\* initializeProviders from loop index i: call registerProvider for the next
\* enabled provider, or leave the loop and call getAllModels() (not awaited)
initLoop(k, r, j) ==
  IF j = 0
  THEN acquireReadLock([k EXCEPT !.pc[InitP(r)] = "done"], ModelsP(r))
  ELSE acquireWriteLock(k, InitP(r))

\* initializeProviders: getProviderModels(providerId) is read from the current
\* configuration just before registerProvider is called for provider j
called(mcfg, j) == IF j = 0 THEN mcfg ELSE [mcfg EXCEPT ![ProviderOrder[j]] = config]

Running(r) == pc[InitP(r)] \notin {"idle", "done"}
Maps == [providers |-> providers, modelProviders |-> modelProviders]
SetMaps(m) == providers' = m.providers /\ modelProviders' = m.modelProviders

\* the registry is at rest once the last started run is over and no
\* setImmediate is pending: from then on only the current snapshot counts
AtRest(k, imm) == imm = 0 /\ \A r \in RunIds : k.pc[InitP(r)] \in {"idle", "done"}

\* a run starts: NewProviderManager.initialize (run 1) or the setImmediate
\* callback of onConfigChanged; clear() is called without await, then the loop
StartRun(r) ==
  /\ mq = <<>>
  /\ pc[InitP(r)] = "idle"
  /\ \A q \in RunIds : q < r => pc[InitP(q)] # "idle"
  /\ r > 1 => immediates > 0
  /\ LET j == nextEnabled(config, 1)
         k == initLoop(acquireWriteLock(Lock, ClearP(r)), r, j)
         imm == IF r > 1 THEN immediates - 1 ELSE immediates
     IN /\ SetLock(k)
        /\ run' = [run EXCEPT ![r] = [snap |-> config, idx |-> j,
                                       mcfg |-> called(run[r].mcfg, j)]]
        /\ immediates' = imm
        /\ window' = window \cup {config}
  /\ UNCHANGED <<regMaps, fwdVars, config, lk>>

\* ConfigManager.loadConfig installed a new snapshot and notified the
\* listener: onConfigChanged schedules a run with setImmediate
ConfigChanged ==
  /\ mq = <<>>
  /\ pc[InitP(1)] # "idle"
  /\ config < NumRuns
  /\ config' = config + 1
  /\ immediates' = immediates + 1
  /\ window' = window \cup {config + 1}
  /\ lk' = [l \in LookupIds |->
              IF pc[LookupP(l)] \in {"Rpoll", "Rbody"}
              THEN [lk[l] EXCEPT !.win = @ \cup {config + 1}] ELSE lk[l]]
  /\ UNCHANGED <<regMaps, fwdVars, lockVars, run>>

\* ProviderRegistry.getProviderForModel is called
LookupCall(l, model) ==
  /\ mq = <<>>
  /\ pc[LookupP(l)] = "idle"
  /\ \A q \in LookupIds : q < l => pc[LookupP(q)] # "idle"
  /\ lk' = [lk EXCEPT ![l] = [IdleLookup EXCEPT !.model = model, !.win = window,
                                               !.during = \E r \in RunIds : Running(r)]]
  /\ SetLock(acquireReadLock(Lock, LookupP(l)))
  /\ UNCHANGED <<regMaps, fwdVars, immediates, config, run, window>>

\* the head of the microtask queue, taken off it
Head1(p) == mq # <<>> /\ Head(mq) = p
Popped == [Lock EXCEPT !.mq = Tail(@)]

\* ProviderRegistry.clear: the body and the finally
ClearBody(r) ==
  /\ Head1(ClearP(r))
  /\ SetMaps(clearBody)
  /\ SetLock(releaseWriteLock([Popped EXCEPT !.pc[ClearP(r)] = "done"]))
  /\ UNCHANGED <<fwdVars, immediates, config, run, lk, window>>

\* ProviderRegistry.registerProvider: the body and the finally, for the
\* provider the run is at, with the models getProviderModels returned when
\* the run made the call
RegisterBody(r) ==
  /\ Head1(InitP(r)) /\ pc[InitP(r)] = "Wbody"
  /\ LET pid == ProviderOrder[run[r].idx]
     IN SetMaps(registerBody(Maps, pid, <<r, pid>>, SnapshotModels(run[r].mcfg[pid], pid)))
  /\ SetLock(resume(releaseWriteLock(Popped), InitP(r), "next"))
  /\ UNCHANGED <<fwdVars, immediates, config, run, lk, window>>

\* initializeProviders resumes after await registerProvider(...)
InitNext(r) ==
  /\ Head1(InitP(r)) /\ pc[InitP(r)] = "next"
  /\ LET j == nextEnabled(run[r].snap, run[r].idx + 1)
         k == initLoop(Popped, r, j)
     IN /\ SetLock(k)
        /\ run' = [run EXCEPT ![r].idx = j, ![r].mcfg = called(@, j)]
        /\ window' = IF AtRest(k, immediates) THEN {config} ELSE window
  /\ UNCHANGED <<regMaps, fwdVars, immediates, config, lk>>

\* ProviderRegistry.getProviderForModel: the body and the finally
LookupBody(l) ==
  /\ Head1(LookupP(l))
  /\ LET found == getProviderForModel(lk[l].model)
     IN lk' = [lk EXCEPT ![l].result = found.err, ![l].provider = found.provider,
                         ![l].midRun = \E r \in RunIds : Running(r)]
  /\ SetLock(releaseReadLock([Popped EXCEPT !.pc[LookupP(l)] = "done"]))
  /\ UNCHANGED <<regMaps, fwdVars, immediates, config, run, window>>

\* ProviderRegistry.getAllModels: the body and the finally
ModelsBody(r) ==
  /\ Head1(ModelsP(r))
  /\ SetLock(releaseReadLock([Popped EXCEPT !.pc[ModelsP(r)] = "done"]))
  /\ UNCHANGED <<regMaps, fwdVars, immediates, config, run, lk, window>>

\* the oldest 1 ms poll fires: its caller re-tests the loop it waits in
TimerFire(p) ==
  /\ mq = <<>>
  /\ timers # <<>> /\ Head(timers) = p
  /\ LET k == [Lock EXCEPT !.timers = Tail(@)]
     IN SetLock(CASE pc[p] = "WpollR" -> writeLoopReaders(k, p)
                  [] pc[p] = "WpollW" -> writeLoopWriters(k, p)
                  [] OTHER -> acquireReadLock(k, p))
  /\ UNCHANGED <<regMaps, fwdVars, immediates, config, run, lk, window>>

\* The registry and the manager as their constructors leave them.
RegInit ==
  /\ modelProviders = clearBody.modelProviders
  /\ providers = clearBody.providers
  /\ isHealthy = [i \in Insts |-> TRUE]
  /\ errorCount = [i \in Insts |-> 0]
  /\ activeStreams = {}
  /\ nextStreamId = 1
  /\ req = [r \in ReqIds |-> IdleReq]
  /\ IdleLock
  /\ pc = [p \in Procs |-> "idle"]
  /\ run = [r \in RunIds |-> [snap |-> 0, idx |-> 0, mcfg |-> [p \in ProviderIds |-> 0]]]
  /\ lk = [l \in LookupIds |-> IdleLookup]
  /\ config = 1
  /\ window = {0}

RegNext ==
  \/ \E r \in RunIds : StartRun(r)
  \/ ConfigChanged
  \/ \E l \in LookupIds, model \in Models : LookupCall(l, model)
  \/ \E r \in RunIds : ClearBody(r)
  \/ \E r \in RunIds : RegisterBody(r)
  \/ \E r \in RunIds : InitNext(r)
  \/ \E l \in LookupIds : LookupBody(l)
  \/ \E r \in RunIds : ModelsBody(r)
  \/ \E p \in Procs : TimerFire(p)

RegSpec == RegInit /\ [][RegNext]_vars

\* ---------------------------------------------------- claims under RegSpec

BoundInAll(m, win) == \A k \in win : m \in SnapshotBound(k)
BoundInNone(m, win) == \A k \in win : m \notin SnapshotBound(k)

\* C3: a lookup never reads the mapping while a run is between its clear and
\* its last registration; a lookup of a model bound in every snapshot that was
\* current or being installed while it ran never fails with ModelNotFound; and
\* a lookup made during a reload of a model bound in none of them always does.
C3_ReloadInvisibleToLookups ==
  \A l \in LookupIds :
    pc[LookupP(l)] = "done" =>
      /\ ~lk[l].midRun
      /\ BoundInAll(lk[l].model, lk[l].win) => lk[l].result # "ModelNotFound"
      /\ (lk[l].during /\ BoundInNone(lk[l].model, lk[l].win))
           => lk[l].result = "ModelNotFound"

\* a lookup called while a reload from one loaded snapshot to the next was
\* running, for a model bound in both, got its provider
C3_Witness ==
  \E l \in LookupIds :
    /\ pc[LookupP(l)] = "done" /\ lk[l].during
    /\ 0 \notin lk[l].win /\ Cardinality(lk[l].win) >= 2
    /\ BoundInAll(lk[l].model, lk[l].win)
    /\ lk[l].result = "none"

\* C15: a lookup started after a reload has completed (the registry at rest on
\* a reloaded snapshot k) resolves against snapshot k only: ModelNotFound for a
\* model k does not bind, otherwise a provider instance built by a run that
\* read snapshot k.
C15_LookupAfterReloadSeesNewOnly ==
  \A l \in LookupIds :
    \A k \in 2..NumRuns :
      (pc[LookupP(l)] = "done" /\ ~lk[l].during /\ lk[l].win = {k}) =>
        /\ lk[l].model \notin SnapshotBound(k) => lk[l].result = "ModelNotFound"
        /\ lk[l].model \in SnapshotBound(k) =>
             (lk[l].result = "none" /\ run[lk[l].provider[1]].snap = k)

\* C16: a registerProvider call is all or nothing for lookups: no lookup body
\* runs while a writer holds the lock, and in every state a lookup can read,
\* a provider entry set by a call comes with every model binding of that
\* call, and a binding never exists without a provider entry under its id.
C16_RegistrationAtomic ==
  /\ \A l \in LookupIds : pc[LookupP(l)] = "Rbody" => writers = 0
  /\ \A r \in RunIds, pid \in ProviderIds :
       /\ providers[pid] = <<r, pid>> =>
            \A m \in SnapshotModels(run[r].mcfg[pid], pid) : modelProviders[m] = <<r, pid>>
       /\ (\E m \in Models : modelProviders[m] = <<r, pid>>) => providers[pid] # NoInst

\* a lookup that waited for the registration of a provider with two models
\* and was answered by that provider
C16_Witness ==
  \E l \in LookupIds :
    /\ pc[LookupP(l)] = "done" /\ lk[l].during /\ lk[l].result = "none"
    /\ lk[l].provider[2] = "gitee"
    /\ Cardinality({m \in Models : modelProviders[m] = lk[l].provider}) = 2

\* C31: every model binding points to the provider instance currently stored
\* under that provider's id, so that no lookup returns an instance that a later
\* registerProvider under the same id has replaced
C31_BindingsFollowOverwrite ==
  /\ \A m \in Models :
       modelProviders[m] # NoInst => providers[modelProviders[m][2]] = modelProviders[m]
  /\ \A m \in Models :
       getProviderForModel(m).ok =>
         getProviderForModel(m).provider = providers[getProviderForModel(m).provider[2]]

\* C32: once overlapping runs of initializeProviders have all finished, the
\* registry holds exactly the providers and bindings of the most recent
\* snapshot, built by a run that read it: none from an earlier one, none missing
C32_LatestSnapshotWins ==
  (AtRest(Lock, immediates) /\ pc[InitP(2)] = "done") =>
    /\ \A p \in ProviderIds :
         IF SnapshotEnabled(config, p)
         THEN providers[p] # NoInst /\ providers[p][2] = p /\ run[providers[p][1]].snap = config
         ELSE providers[p] = NoInst
    /\ \A m \in Models :
         IF m \in SnapshotBound(config)
         THEN /\ modelProviders[m] # NoInst
              /\ m \in SnapshotModels(config, modelProviders[m][2])
              /\ modelProviders[m] = providers[modelProviders[m][2]]
         ELSE modelProviders[m] = NoInst

\* ============================================================ ReloadSpec
\* RegSpec together with a caller of ProviderRegistry.reload, which the
\* program itself never calls.  The event loop always runs a task that is
\* ready.

\* reload(initCallback) is called; the callback, if one is passed, is one that
\* registers a provider through registerProvider.  The caller is outside the
\* repository: it may call from a task of its own or from a microtask that
\* runs between two microtasks of the registry.
ReloadCall(withCallback) ==
  /\ pc[ReloadP] = "idle"
  /\ SetLock(acquireWriteLock(
               [Lock EXCEPT !.pc[CallbackP] = IF withCallback THEN "pending" ELSE "idle"],
               ReloadP))
  /\ UNCHANGED <<regMaps, fwdVars, immediates, config, run, lk, window>>

\* ProviderRegistry.reload and its callback, one microtask of either.  reload
\* under the write lock clears the maps and awaits the callback, which runs up
\* to the await in its registerProvider call; without a callback the finally
\* releases the lock at once.  registerProvider in the callback, once it holds
\* the lock, registers and releases, the callback returns and reload's finally
\* runs in a later microtask.
ReloadStep ==
  /\ mq # <<>> /\ Head(mq) \in {ReloadP, CallbackP}
  /\ LET p == Head(mq)
     IN CASE p = ReloadP /\ pc[p] = "Wbody" ->
               /\ SetMaps(clearBody)
               /\ SetLock(IF pc[CallbackP] = "pending"
                          THEN acquireWriteLock([Popped EXCEPT !.pc[ReloadP] = "awaitCallback"],
                                                CallbackP)
                          ELSE releaseWriteLock([Popped EXCEPT !.pc[ReloadP] = "done"]))
          [] p = ReloadP /\ pc[p] # "Wbody" ->
               /\ SetLock(releaseWriteLock([Popped EXCEPT !.pc[ReloadP] = "done"]))
               /\ UNCHANGED regMaps
          [] OTHER ->
               /\ SetMaps(registerBody(Maps, ProviderOrder[1], <<1, ProviderOrder[1]>>,
                                       SnapshotModels(config, ProviderOrder[1])))
               /\ SetLock(resume(releaseWriteLock([Popped EXCEPT !.pc[CallbackP] = "done"]),
                                 ReloadP, "finally"))
  /\ UNCHANGED <<fwdVars, immediates, config, run, lk, window>>

ReloadNext ==
  \/ RegNext
  \/ \E withCallback \in BOOLEAN : ReloadCall(withCallback)
  \/ ReloadStep

ReloadSpec == RegInit /\ [][ReloadNext]_vars /\ WF_vars(ReloadNext)

InFlight(p) == pc[p] \notin {"idle", "done", "pending"}

\* C29: in every reachable state of the registry lock, whatever the
\* interleaving of registerProvider, clear, reload and the read operations, at
\* most one writer holds the lock, a writer excludes readers, no counter is
\* negative, and all three counters are zero whenever no operation is in flight
C29_LockInvariants ==
  /\ writers \in {0, 1}
  /\ writers > 0 => readers = 0
  /\ readers >= 0 /\ waitingWriters >= 0
  /\ (\A p \in Procs : ~InFlight(p)) => readers = 0 /\ writers = 0 /\ waitingWriters = 0

C29_Witness ==
  /\ pc[ReloadP] = "done"
  /\ \E l \in LookupIds : pc[LookupP(l)] = "done" /\ lk[l].result # "none"
  /\ \E r \in RunIds : pc[InitP(r)] = "done"
  /\ \A p \in Procs : ~InFlight(p)
  /\ readers = 0 /\ writers = 0 /\ waitingWriters = 0

\* C30: a reload whose callback registers providers through registerProvider
\* completes and releases the write lock, and no registry operation that was
\* started waits for the lock forever
C30_ReloadCompletes ==
  /\ (pc[ReloadP] # "idle") ~> (pc[ReloadP] = "done" /\ pc[CallbackP] \in {"idle", "done"})
  /\ \A p \in Procs : InFlight(p) ~> ~InFlight(p)

\* ============================================================== LazySpec
\* Nothing initialises the provider manager at startup: the first requests do,
\* through ProviderManagerCompat.ensureInitialized.  The registry and the
\* manager start as their constructors leave them.

\* NewProviderManager.initialized (and, one microtask later in the same
\* drain, ProviderManagerCompat.initialized): set when some caller's
\* await initializeProviders() has resumed
Initialized == \E q \in CallerIds : pc[EnsureP(q)] = "done"

\* the listeners ConfigManager holds: initialize() adds a new closure in the
\* step in which it calls initializeProviders
Listeners == {q \in CallerIds : pc[InitP(q)] # "idle"}

\* initializeProviders resolved and the caller's continuation has not run yet;
\* it runs in the same microtask drain, before any other task
Pending(q) == pc[EnsureP(q)] = "initializing" /\ pc[InitP(q)] = "done"
NoPending == \A q \in CallerIds : ~Pending(q)

\* NewProviderManager.forwardRequest -> RequestForwarder.forwardRequest up to
\* the await in getProviderForModel
forwardLookup(q, model) ==
  /\ lk' = [lk EXCEPT ![q] = [IdleLookup EXCEPT !.model = model, !.win = window,
                                               !.during = \E r \in RunIds : Running(r)]]
  /\ SetLock(acquireReadLock([Lock EXCEPT !.pc[EnsureP(q)] = "done"], LookupP(q)))

\* a request reaches ProviderManagerCompat.forwardRequest: ensureInitialized
\* and NewProviderManager.initialize test their flags; if unset, initialize
\* awaits configManager.initialize (file reads), else the request is forwarded
EnsureCall(q, model) ==
  /\ mq = <<>> /\ NoPending
  /\ pc[EnsureP(q)] = "idle"
  /\ \A p \in CallerIds : p < q => pc[EnsureP(p)] # "idle"
  /\ IF Initialized
     THEN forwardLookup(q, model)
     ELSE /\ SetLock([Lock EXCEPT !.pc[EnsureP(q)] = "loading"])
          /\ UNCHANGED lk
  /\ UNCHANGED <<regMaps, fwdVars, immediates, config, run, window>>

\* configManager.initialize resolved for caller q: loadConfig notified the
\* listeners registered so far (each schedules a run with setImmediate), then
\* initialize adds its listener and calls initializeProviders, which calls
\* clear() without await and enters its loop
ConfigLoaded(q) ==
  /\ mq = <<>> /\ NoPending
  /\ pc[EnsureP(q)] = "loading"
  /\ LET j == nextEnabled(config, 1)
         k == initLoop(acquireWriteLock([Lock EXCEPT !.pc[EnsureP(q)] = "initializing"],
                                        ClearP(q)), q, j)
     IN /\ SetLock(k)
        /\ run' = [run EXCEPT ![q] = [snap |-> config, idx |-> j,
                                       mcfg |-> called(run[q].mcfg, j)]]
  /\ immediates' = immediates + Cardinality(Listeners)
  /\ window' = window \cup {config}
  /\ UNCHANGED <<regMaps, fwdVars, config, lk>>

\* await initializeProviders() resumes: initialized = true in the manager and
\* in the compatibility layer, then the request is forwarded
InitReturns(q, model) ==
  /\ mq = <<>>
  /\ Pending(q)
  /\ forwardLookup(q, model)
  /\ UNCHANGED <<regMaps, fwdVars, immediates, config, run, window>>

\* a 1 ms poll timer of the lock fires, once the running drain is over
LazyTimerFire(p) == NoPending /\ TimerFire(p)

LazyNext ==
  \/ \E q \in CallerIds, model \in Models : EnsureCall(q, model)
  \/ \E q \in CallerIds : ConfigLoaded(q)
  \/ \E q \in CallerIds, model \in Models : InitReturns(q, model)
  \/ \E r \in RunIds : ClearBody(r)
  \/ \E r \in RunIds : RegisterBody(r)
  \/ \E r \in RunIds : InitNext(r)
  \/ \E l \in LookupIds : LookupBody(l)
  \/ \E r \in RunIds : ModelsBody(r)
  \/ \E p \in Procs : LazyTimerFire(p)

LazySpec == RegInit /\ [][LazyNext]_vars

\* C34: when several requests arrive before the provider manager is
\* initialised, initialisation is performed at most once (one listener, one
\* run of initializeProviders) and no request is forwarded against a registry
\* an overlapping initialisation has just cleared: a forwarded request for a
\* model the configuration binds finds it
C34_InitializedOnce ==
  /\ Cardinality(Listeners) <= 1
  /\ Cardinality({r \in RunIds : pc[InitP(r)] # "idle"}) <= 1
  /\ \A q \in CallerIds :
       (pc[LookupP(q)] = "done" /\ lk[q].model \in SnapshotBound(config))
         => lk[q].result # "ModelNotFound"

\* ============================================================== ChatSpec
\* The chat route's handleStreamingResponse, one call per request.  Of the
\* request record it uses pc, res, headersSent, sent (the frames written to
\* the caller), chunks (the reads made), response (the running promptTokens
\* and completionTokens), usage (the usage logs created) and outcome.

\* the lines a chunk of the upstream body splits into
SseLines == {"blank", "comment", "delta", "usage", "invalid", "unparsable", "[DONE]"}
MaxLines == 2
SseChunks == UNION {[1..n -> SseLines] : n \in 1..MaxLines}

\* the for loop over the lines of one chunk, from line i on: blank lines and
\* lines without the data: prefix are skipped, [DONE] is written and the
\* function goes to await db.createUsageLog, a chunk with usage updates the
\* counts, and every other data line is written to the caller as it came
RECURSIVE processLines(_, _, _)
processLines(s, lines, i) ==
  IF i > Len(lines) THEN s
  ELSE LET line == lines[i]
       IN IF line \in {"blank", "comment"} THEN processLines(s, lines, i + 1)
          ELSE IF line = "[DONE]"
          THEN [s EXCEPT !.sent = Append(@, line), !.headersSent = TRUE, !.pc = "logging"]
          ELSE processLines(
                 [s EXCEPT !.sent = Append(@, line), !.headersSent = TRUE,
                           !.response = IF line = "usage"
                                        THEN [@ EXCEPT !.prompt = 3, !.completion = 2]
                                        ELSE @],
                 lines, i + 1)

\* the catch of handleStreamingResponse
streamingCatch(s) ==
  [s EXCEPT !.pc = "done", !.outcome = "error", !.res = "ended", !.headersSent = TRUE]

\* handleStreamingResponse is called with the provider's response
ChatStart(r, hasBody) ==
  /\ req[r].pc = "idle"
  /\ req' = [req EXCEPT ![r] =
               IF hasBody
               THEN [@ EXCEPT !.pc = "reading", !.stream = TRUE,
                              !.response = [present |-> FALSE, total |-> Undef,
                                            prompt |-> 0, completion |-> 0]]
               ELSE streamingCatch([@ EXCEPT !.stream = TRUE])]
  /\ UNCHANGED <<regMaps, regVars, isHealthy, errorCount, activeStreams, nextStreamId>>

\* await reader.read() resolved with a chunk
ChatRead(r, chunk) ==
  /\ req[r].pc = "reading"
  /\ req[r].chunks < MaxChunks
  /\ req' = [req EXCEPT ![r] = processLines([@ EXCEPT !.chunks = @ + 1], chunk, 1)]
  /\ UNCHANGED <<regMaps, regVars, isHealthy, errorCount, activeStreams, nextStreamId>>

\* await reader.read() resolved with done: the loop is left and the function
\* returns
ChatReadDone(r) ==
  /\ req[r].pc = "reading"
  /\ req' = [req EXCEPT ![r] = [@ EXCEPT !.pc = "done", !.outcome = "eof"]]
  /\ UNCHANGED <<regMaps, regVars, isHealthy, errorCount, activeStreams, nextStreamId>>

\* await reader.read() rejected
ChatReadError(r) ==
  /\ req[r].pc = "reading"
  /\ req' = [req EXCEPT ![r] = streamingCatch(@)]
  /\ UNCHANGED <<regMaps, regVars, isHealthy, errorCount, activeStreams, nextStreamId>>

\* await db.createUsageLog(...) settled after [DONE]: res.end() and return,
\* or the catch if it rejected
ChatLogged(r, threw) ==
  /\ req[r].pc = "logging"
  /\ req' = [req EXCEPT ![r] =
               IF threw THEN streamingCatch(@)
               ELSE [@ EXCEPT !.pc = "done", !.outcome = "sentinel", !.res = "ended",
                              !.usage = Append(@, [tokenInput |-> req[r].response.prompt,
                                                   tokenOutput |-> req[r].response.completion])]]
  /\ UNCHANGED <<regMaps, regVars, isHealthy, errorCount, activeStreams, nextStreamId>>

ChatNext ==
  \/ \E r \in ReqIds, hasBody \in BOOLEAN : ChatStart(r, hasBody)
  \/ \E r \in ReqIds, chunk \in SseChunks : ChatRead(r, chunk)
  \/ \E r \in ReqIds : ChatReadDone(r)
  \/ \E r \in ReqIds : ChatReadError(r)
  \/ \E r \in ReqIds, threw \in BOOLEAN : ChatLogged(r, threw)

ChatSpec == RegInit /\ [][ChatNext]_vars

\* C35: a session whose upstream body ends without [DONE] is completed like
\* one that received it: the caller's response is ended and one usage log was
\* created; and no session creates more than one usage log
C35_EndWithoutDoneCompletes ==
  \A r \in ReqIds :
    /\ Len(req[r].usage) <= 1
    /\ (req[r].pc = "done" /\ req[r].outcome \in {"eof", "sentinel"}) =>
         (req[r].res = "ended" /\ Len(req[r].usage) = 1)

====
